---------------------------- MODULE Spec2Model ----------------------------
(***************************************************************************)
(* RSA with public exponent e = 3 (src/RSA.ipynb): encrypt / decrypt, the  *)
(* Miller-Rabin primality test and the generation of the key pair (p, q).  *)
(*                                                                         *)
(* The notebook's functions are modelled as operators computed the way the *)
(* code computes them; its loops (print_fixed_points, is_probable_prime,   *)
(* random_6n_5_prime, generate_random_mod) are modelled as state machines, *)
(* one specification per loop, all over the same variables.  randint is a  *)
(* nondeterministic choice over its closed range.                          *)
(***************************************************************************)
EXTENDS Integers, FiniteSets

VARIABLES
    pc,       \* position of the running cell / function
    p, q,     \* the secret primes
    m, c, d,  \* message, cypher, decoded message (print_fixed_points)
    printed,  \* the messages print_fixed_points has printed a row for
    arg, res, \* argument and outcome of a single encrypt / decrypt call
    lo, hi,   \* the range given to generate_random_mod
    n,        \* the number under test (is_probable_prime, random_6n_5_prime)
    i, a,     \* round and base of is_probable_prime
    result    \* the value is_probable_prime returned

vars == <<pc, p, q, m, c, d, printed, arg, res, lo, hi, n, i, a, result>>

---------------------------------------------------------------------------
(* Bounds of the model.                                                    *)

\* Largest prime of the key pairs enumerated for encrypt / decrypt.
MaxPrime == 40
\* How far outside [0, n) the arguments of a single call range.
Margin == 2
\* Largest number handed to is_probable_prime on its own.
MaxN == 100
\* Largest hi handed to generate_random_mod, and how far below 0 lo goes.
MaxHi == 30
MaxNeg == 6
\* Smallest lo and largest hi handed to generate_random_mod under fairness.
MinLiveLo == 18
MaxLiveHi == 35

---------------------------------------------------------------------------
(* Mathematical notions the claims are stated with (not code).             *)

IsPrime(x) == x > 1 /\ \A k \in 2..(x - 1) : x % k # 0

IsComposite(x) == x > 1 /\ ~IsPrime(x)

\* The primes of the form 6k + 5 in [from, to].
Primes6n5(from, to) == {x \in from..to : IsPrime(x) /\ x % 6 = 5}

---------------------------------------------------------------------------
(* Python primitives.                                                      *)

\* pow(b, e, n) for e >= 0 and n >= 1, by repeated squaring.
RECURSIVE pow(_, _, _)
pow(b, e, modulus) ==
    IF e = 0 THEN 1 % modulus
    ELSE LET h == pow(b, e \div 2, modulus)
             sq == (h * h) % modulus
         IN  IF e % 2 = 0 THEN sq ELSE (sq * (b % modulus)) % modulus

\* The outcome of a call: a returned value, or a raised AssertionError.
Return(v) == [raised |-> FALSE, value |-> v]

AssertionError == [raised |-> TRUE, value |-> 0]

NoCall == [raised |-> FALSE, value |-> -1]

---------------------------------------------------------------------------
(* encrypt and decrypt.                                                    *)

encrypt_no_upper_check(msg, modulus) ==
    IF ~(msg >= 0 /\ msg <= modulus) THEN AssertionError
    ELSE Return(pow(msg, 3, modulus))

encrypt(msg, modulus) ==
    IF ~(msg >= 0 /\ msg < modulus) THEN AssertionError
    ELSE Return(pow(msg, 3, modulus))

phi(pp, qq) == (pp - 1) * (qq - 1)

DecryptExponent_no_plus_one(pp, qq) == (2 * phi(pp, qq)) \div 3

\* d = (2 * phi + 1) // 3
DecryptExponent(pp, qq) == (2 * phi(pp, qq) + 1) \div 3

decrypt_phi_exponent(cy, pp, qq) ==
    LET modulus == pp * qq
    IN  IF ~(cy >= 0 /\ cy < modulus) THEN AssertionError
        ELSE Return(pow(cy, (phi(pp, qq) + 1) \div 3, modulus))

decrypt(cy, pp, qq) ==
    LET modulus == pp * qq
    IN  IF ~(cy >= 0 /\ cy < modulus) THEN AssertionError
        ELSE Return(pow(cy, DecryptExponent(pp, qq), modulus))

---------------------------------------------------------------------------
(* The key pairs encrypt / decrypt are exercised with: every ordered pair  *)
(* of distinct primes 6k + 5 up to MaxPrime, and the notebook's own pairs  *)
(* (5, 11) and (101, 107).  (1013, 1019) is left out: its squares exceed   *)
(* the 32-bit integers of the model checker.                               *)

NotebookPairs == {<<5, 11>>, <<101, 107>>}

KeyPairs ==
    {pr \in Primes6n5(0, MaxPrime) \X Primes6n5(0, MaxPrime) : pr[1] # pr[2]}
        \cup NotebookPairs

---------------------------------------------------------------------------
(* print_fixed_points(p, q): for m in range(n): c = encrypt(m, n);         *)
(* d = decrypt(c, p, q); assert(m == d); if c == d: print the row.         *)

FixedInit ==
    /\ pc = "for"
    /\ \E pr \in KeyPairs : p = pr[1] /\ q = pr[2]
    /\ m = 0 /\ c = 0 /\ d = 0 /\ printed = {}
    /\ arg = 0 /\ res = NoCall /\ lo = 0 /\ hi = 0
    /\ n = 0 /\ i = 0 /\ a = 0 /\ result = FALSE

FixedRest == <<p, q, arg, res, lo, hi, n, i, a, result>>

ForNext ==
    /\ pc = "for"
    /\ pc' = IF m < p * q THEN "encrypt" ELSE "done"
    /\ UNCHANGED <<m, c, d, printed>>
    /\ UNCHANGED FixedRest

LoopEncrypt ==
    /\ pc = "encrypt"
    /\ LET r == encrypt(m, p * q)
       IN  IF r.raised THEN pc' = "raised" /\ c' = c
           ELSE pc' = "decrypt" /\ c' = r.value
    /\ UNCHANGED <<m, d, printed>>
    /\ UNCHANGED FixedRest

LoopDecrypt ==
    /\ pc = "decrypt"
    /\ LET r == decrypt(c, p, q)
       IN  IF r.raised THEN pc' = "raised" /\ d' = d
           ELSE pc' = "assert" /\ d' = r.value
    /\ UNCHANGED <<m, c, printed>>
    /\ UNCHANGED FixedRest

LoopAssert ==
    /\ pc = "assert"
    /\ pc' = IF m = d THEN "print" ELSE "raised"
    /\ UNCHANGED <<m, c, d, printed>>
    /\ UNCHANGED FixedRest

LoopPrint_every_row ==
    /\ pc = "print"
    /\ printed' = printed \cup {m}
    /\ m' = m + 1
    /\ pc' = "for"
    /\ UNCHANGED <<c, d>>
    /\ UNCHANGED FixedRest

LoopPrint ==
    /\ pc = "print"
    /\ printed' = IF c = d THEN printed \cup {m} ELSE printed
    /\ m' = m + 1
    /\ pc' = "for"
    /\ UNCHANGED <<c, d>>
    /\ UNCHANGED FixedRest

FixedNext == ForNext \/ LoopEncrypt \/ LoopDecrypt \/ LoopAssert \/ LoopPrint

FixedSpec == FixedInit /\ [][FixedNext]_vars

\* The fixed points of encryption modulo modulus.
FixedPoints(modulus) ==
    {x \in 0..(modulus - 1) : encrypt(x, modulus) = Return(x)}

\* C1: round trip. For distinct primes p, q = 5 (mod 6) and every m in
\* [0, p*q), decrypt(encrypt(m, p*q), p, q) returns exactly m: neither call
\* raises, and the decoded value the loop asserts on equals the message.
C1_RoundTrip ==
    /\ pc # "raised"
    /\ pc = "assert" => (d = m /\ decrypt(encrypt(m, p * q).value, p, q) = Return(m))

C1_Witness ==
    pc = "assert" /\ p = 101 /\ q = 107 /\ m = 2 /\ c = 8 /\ d = 2

\* C6: fixed points. For distinct primes p, q = 5 (mod 6) exactly 9 messages
\* m in [0, p*q) satisfy encrypt(m, p*q) = m, whatever the size of the
\* modulus; for p = 5, q = 11 they are {0, 1, 10, 11, 21, 34, 44, 45, 54}.
C6_NineFixedPoints ==
    pc = "done" =>
        /\ printed = FixedPoints(p * q)
        /\ Cardinality(printed) = 9
        /\ (p = 5 /\ q = 11) => printed = {0, 1, 10, 11, 21, 34, 44, 45, 54}

C6_Witness ==
    pc = "done" /\ p = 101 /\ q = 107 /\ Cardinality(printed) = 9
        /\ 10806 \in printed

\* C7: exactness of the decryption exponent. For distinct primes p, q = 5
\* (mod 6), 2(p-1)(q-1) + 1 is a multiple of 3, so the floor division in
\* decrypt is exact: 3 * d = 2(p-1)(q-1) + 1.
C7_ExactExponent ==
    /\ (2 * (p - 1) * (q - 1) + 1) % 3 = 0
    /\ 3 * DecryptExponent(p, q) = 2 * (p - 1) * (q - 1) + 1

C7_Witness ==
    pc = "assert" /\ p = 5 /\ q = 11 /\ DecryptExponent(p, q) = 27 /\ d = m

---------------------------------------------------------------------------
(* A single call of encrypt(arg, p * q) or decrypt(arg, p, q), the         *)
(* argument ranging from below 0 to above the modulus.                     *)

CallInit ==
    /\ pc = "call"
    /\ \E pr \in KeyPairs : p = pr[1] /\ q = pr[2]
    /\ arg \in (0 - Margin)..(p * q + Margin)
    /\ res = NoCall
    /\ m = 0 /\ c = 0 /\ d = 0 /\ printed = {}
    /\ lo = 0 /\ hi = 0 /\ n = 0 /\ i = 0 /\ a = 0 /\ result = FALSE

CallRest == <<p, q, m, c, d, printed, arg, lo, hi, n, i, a, result>>

CallEncrypt ==
    /\ pc = "call"
    /\ res' = encrypt(arg, p * q)
    /\ pc' = "encrypted"
    /\ UNCHANGED CallRest

CallDecrypt ==
    /\ pc = "call"
    /\ res' = decrypt(arg, p, q)
    /\ pc' = "decrypted"
    /\ UNCHANGED CallRest

CallNext == CallEncrypt \/ CallDecrypt

CallSpec == CallInit /\ [][CallNext]_vars

OutOfRange == arg < 0 \/ arg >= p * q

\* C2: range enforcement. encrypt(m, n) returns no value when m < 0 or
\* m >= n, and decrypt(c, p, q) returns no value when c < 0 or c >= p*q;
\* an in-range argument returns a value in [0, n), so no out-of-range
\* argument ever yields a wrapped-around result.
C2_RangeEnforced ==
    pc \in {"encrypted", "decrypted"} =>
        /\ OutOfRange => res.raised
        /\ ~OutOfRange => (~res.raised /\ res.value \in 0..(p * q - 1))

C2_Witness ==
    pc = "encrypted" /\ p = 5 /\ q = 11 /\ arg = 55 /\ res.raised

---------------------------------------------------------------------------
(* Miller-Rabin.                                                           *)

\* for i in range(50)
Rounds == 50

\* The while loop of is_miller_rabin_witness without the test for n - 1.
RECURSIVE HalvingLoop_no_minus_one(_, _, _)
HalvingLoop_no_minus_one(base, num, k) ==
    IF k % 2 # 0 THEN FALSE
    ELSE LET half == k \div 2
             r == pow(base, half, num)
         IN  IF r # 1 THEN TRUE
             ELSE HalvingLoop_no_minus_one(base, num, half)

\* while k % 2 == 0: k //= 2; res = pow(a, k, n);
\*     if res == -1 + n: return False;  if res != 1: return True
\* return False
RECURSIVE HalvingLoop(_, _, _)
HalvingLoop(base, num, k) ==
    IF k % 2 # 0 THEN FALSE
    ELSE LET half == k \div 2
             r == pow(base, half, num)
         IN  IF r = -1 + num THEN FALSE
             ELSE IF r # 1 THEN TRUE
             ELSE HalvingLoop(base, num, half)

is_miller_rabin_witness_fermat_only(base, num) == pow(base, num - 1, num) # 1

is_miller_rabin_witness(base, num) ==
    IF pow(base, num - 1, num) # 1 THEN TRUE
    ELSE HalvingLoop(base, num, num - 1)

(* is_probable_prime(n) as a loop: each round draws a base and tests it.   *)

MRInit ==
    /\ pc = "draw"
    /\ n \in 2..MaxN
    /\ i = 0 /\ a = 0 /\ result = FALSE
    /\ p = 0 /\ q = 0 /\ m = 0 /\ c = 0 /\ d = 0 /\ printed = {}
    /\ arg = 0 /\ res = NoCall /\ lo = 0 /\ hi = 0

MRRest == <<p, q, m, c, d, printed, arg, res, lo, hi, n>>

\* a = randint(1, n - 1)
DrawBase ==
    /\ pc = "draw" /\ i < Rounds
    /\ a' \in 1..(n - 1)
    /\ pc' = "test"
    /\ UNCHANGED <<i, result>>
    /\ UNCHANGED MRRest

\* if is_miller_rabin_witness(a, n): return False
TestBase ==
    /\ pc = "test"
    /\ IF is_miller_rabin_witness(a, n)
       THEN result' = FALSE /\ pc' = "done" /\ i' = i
       ELSE result' = result /\ pc' = "draw" /\ i' = i + 1
    /\ UNCHANGED a
    /\ UNCHANGED MRRest

\* return True
ReturnTrue ==
    /\ pc = "draw" /\ i = Rounds
    /\ result' = TRUE
    /\ pc' = "done"
    /\ UNCHANGED <<i, a>>
    /\ UNCHANGED MRRest

MRNext == DrawBase \/ TestBase \/ ReturnTrue

MRSpec == MRInit /\ [][MRNext]_vars

\* C4: one-sided error. For a prime n >= 2 no base of [1, n-1] is reported
\* as a witness, whatever bases are drawn, so is_probable_prime(n) returns
\* True; equivalently a returned False means n is composite.
C4_PrimesAccepted ==
    IsPrime(n) =>
        /\ pc = "test" => ~is_miller_rabin_witness(a, n)
        /\ pc = "done" => result = TRUE

C4_Witness ==
    pc = "done" /\ n = 97 /\ i = Rounds /\ result = TRUE

\* The bases of [1, n-1] that is_miller_rabin_witness does not report.
NonWitnesses(num) == {b \in 1..(num - 1) : ~is_miller_rabin_witness(b, num)}

\* C8: per-round false-positive bound. For every composite n > 1 at most a
\* quarter of the bases of [1, n-1] are non-witnesses.
C8_QuarterBound ==
    (pc = "draw" /\ i = 0 /\ IsComposite(n)) =>
        4 * Cardinality(NonWitnesses(n)) <= n - 1

\* The bound of C8 for odd composite n only.
C8_QuarterBoundOdd ==
    (pc = "draw" /\ i = 0 /\ IsComposite(n) /\ n % 2 = 1) =>
        4 * Cardinality(NonWitnesses(n)) <= n - 1

\* n - 1 = 2^s * d with d odd: d and s.
RECURSIVE OddPart(_)
OddPart(k) == IF k % 2 = 0 THEN OddPart(k \div 2) ELSE k

RECURSIVE TwoAdicity(_)
TwoAdicity(k) == IF k % 2 = 0 THEN 1 + TwoAdicity(k \div 2) ELSE 0

RECURSIVE TwoTo(_)
TwoTo(r) == IF r = 0 THEN 1 ELSE 2 * TwoTo(r - 1)

\* The documented Miller-Rabin witness: a^d is not 1 and no a^(2^r d),
\* 0 <= r < s, is n - 1.
DocumentedWitness(base, num) ==
    LET dd == OddPart(num - 1)
        s == TwoAdicity(num - 1)
    IN  /\ pow(base, dd, num) # 1
        /\ \A r \in 0..(s - 1) : pow(base, TwoTo(r) * dd, num) # num - 1

\* C9: for odd n >= 3 and a in [1, n-1], is_miller_rabin_witness(a, n) is
\* True exactly when a is a witness by the documented definition: the early
\* return of the halving loop never disagrees with the whole squaring
\* sequence.
C9_AgreesWithDefinition ==
    (pc = "test" /\ n % 2 = 1) =>
        (is_miller_rabin_witness(a, n) <=> DocumentedWitness(a, n))

\* 12^64 = 1 (mod 65), and the loop returns True at 12^2 = 14 without
\* looking at 12^1.
C9_Witness ==
    /\ pc = "test" /\ n = 65 /\ a = 12
    /\ pow(a, n - 1, n) = 1
    /\ is_miller_rabin_witness(a, n) /\ DocumentedWitness(a, n)

---------------------------------------------------------------------------
(* Key generation.                                                         *)

\* The values the rounds of is_probable_prime can return from round on,
\* when some base is a witness (canFail) and some base is not (canPass): a
\* round that draws a witness returns False, a round that draws a
\* non-witness goes on; after the last round, True.
RECURSIVE ProbablePrimeRounds(_, _, _)
ProbablePrimeRounds(canFail, canPass, round) ==
    IF round = Rounds THEN {TRUE}
    ELSE (IF canFail THEN {FALSE} ELSE {})
         \cup
         (IF canPass THEN ProbablePrimeRounds(canFail, canPass, round + 1)
          ELSE {})

\* The values is_probable_prime(num) can return over all the bases
\* randint(1, num - 1) can draw in its rounds.
is_probable_prime(num) ==
    UNION {ProbablePrimeRounds(canFail, canPass, 0) :
              <<canFail, canPass>> \in
                  {<<\E b \in 1..(num - 1) : is_miller_rabin_witness(b, num),
                     \E b \in 1..(num - 1) : ~is_miller_rabin_witness(b, num)>>}}

\* The loop of is_probable_prime returns one of the values the rounds can
\* return.
StepsAgreeWithOutcomes ==
    pc = "done" => result \in is_probable_prime(n)

\* n = 6 * (n // 6) + 5
Project6n5(r) == 6 * (r \div 6) + 5

\* The largest candidate a draw can project onto.
MaxCandidate ==
    Project6n5(IF MaxHi > MaxLiveHi THEN MaxHi ELSE MaxLiveHi)

\* is_probable_prime on every number the key generation can hand to it,
\* computed once.
ProbablePrimeOutcomes ==
    [num \in 2..MaxCandidate |-> is_probable_prime(num)]

GenInit ==
    /\ pc = "p_draw"
    /\ hi \in (0 - MaxNeg)..MaxHi
    /\ lo \in (0 - MaxNeg)..hi
    /\ p = 0 /\ q = 0 /\ n = 0
    /\ i = 0 /\ a = 0 /\ result = FALSE
    /\ m = 0 /\ c = 0 /\ d = 0 /\ printed = {} /\ arg = 0 /\ res = NoCall

GenRest == <<m, c, d, printed, arg, res, lo, hi, i, a, result>>

\* random_6n_5_prime: n = randint(lo, hi); n = 6 * (n // 6) + 5;
\* if (n < lo): continue
DrawCandidate(r) ==
    /\ pc \in {"p_draw", "q_draw"}
    /\ r \in lo..hi
    /\ n' = Project6n5(r)
    /\ pc' = IF Project6n5(r) < lo THEN pc
             ELSE IF pc = "p_draw" THEN "p_test" ELSE "q_test"
    /\ UNCHANGED <<p, q>>
    /\ UNCHANGED GenRest

\* random_6n_5_prime: if is_probable_prime(n): return n
\* (to p = ... or q = ... of generate_random_mod); otherwise draw again.
\* For n < 2 the range of randint(1, n - 1) is empty and it raises
\* ValueError.
TestCandidate ==
    /\ pc \in {"p_test", "q_test"}
    /\ IF n < 2
       THEN pc' = "raised" /\ UNCHANGED <<p, q>>
       ELSE \E out \in ProbablePrimeOutcomes[n] :
              IF out
              THEN IF pc = "p_test"
                   THEN p' = n /\ q' = q /\ pc' = "q_draw"
                   ELSE q' = n /\ p' = p /\ pc' = "compare"
              ELSE /\ pc' = (IF pc = "p_test" THEN "p_draw" ELSE "q_draw")
                   /\ UNCHANGED <<p, q>>
    /\ UNCHANGED n
    /\ UNCHANGED GenRest

Compare_no_retry ==
    /\ pc = "compare"
    /\ pc' = "done"
    /\ UNCHANGED <<p, q, n>>
    /\ UNCHANGED GenRest

Compare_break_on_equal ==
    /\ pc = "compare"
    /\ pc' = IF p = q THEN "done" ELSE "p_draw"
    /\ UNCHANGED <<p, q, n>>
    /\ UNCHANGED GenRest

\* generate_random_mod: if p != q: break (and return p, q)
Compare ==
    /\ pc = "compare"
    /\ pc' = IF p # q THEN "done" ELSE "p_draw"
    /\ UNCHANGED <<p, q, n>>
    /\ UNCHANGED GenRest

GenNext ==
    \/ \E r \in (0 - MaxNeg)..MaxHi : DrawCandidate(r)
    \/ TestCandidate
    \/ Compare

GenSpec == GenInit /\ [][GenNext]_vars

\* C3: every value random_6n_5_prime(lo, hi) returns, hence each of p and
\* q, lies in [lo, hi].
C3_InRange ==
    /\ p # 0 => p \in lo..hi
    /\ q # 0 => q \in lo..hi

\* C5: key-pair invariant. Every pair generate_random_mod returns has
\* p # q, p mod 6 = 5 and q mod 6 = 5.
C5_KeyPairInvariant ==
    /\ pc = "done" => (p # q /\ p % 6 = 5 /\ q % 6 = 5)
    /\ p # 0 => p % 6 = 5
    /\ q # 0 => q % 6 = 5

C5_Witness ==
    pc = "done" /\ lo = 5 /\ hi = 11 /\ p = 11 /\ q = 5

(* generate_random_mod under fair draws, on the ranges [lo, hi] between    *)
(* MinLiveLo and MaxLiveHi (two primes 6k + 5, 23 and 29, and a composite  *)
(* candidate, 35).                                                         *)

GenLiveInit ==
    /\ pc = "p_draw"
    /\ hi \in MinLiveLo..MaxLiveHi
    /\ lo \in MinLiveLo..hi
    /\ p = 0 /\ q = 0 /\ n = 0
    /\ i = 0 /\ a = 0 /\ result = FALSE
    /\ m = 0 /\ c = 0 /\ d = 0 /\ printed = {} /\ arg = 0 /\ res = NoCall

GenLiveNext ==
    (\E r \in MinLiveLo..MaxLiveHi : DrawCandidate(r)) \/ TestCandidate \/ Compare

\* The candidates the draws of [MinLiveLo, MaxLiveHi] project onto.
Candidates == {Project6n5(r) : r \in MinLiveLo..MaxLiveHi}

\* A draw that projects onto cand.  The drawn value is overwritten by its
\* projection at once, so the draws of two values with the same projection
\* are the same step.
DrawTo(cand) == \E r \in lo..hi : Project6n5(r) = cand /\ DrawCandidate(r)

(* Fairness of the random draws, as the claim states it: every value of    *)
(* [lo, hi] is drawn infinitely often while draws are made.  The test of a *)
(* candidate and the comparison are steps the interpreter always takes.    *)
GenLiveSpec ==
    /\ GenLiveInit /\ [][GenLiveNext]_vars
    /\ WF_vars(TestCandidate)
    /\ WF_vars(Compare)
    /\ \A cand \in Candidates : SF_vars(DrawTo(cand))

\* A draw for q that projects onto cand while p holds another value.
DrawQOther(cand) == pc = "q_draw" /\ p # cand /\ DrawTo(cand)

\* Every value is drawn for q infinitely often at moments when p holds a
\* different value, if there are infinitely many such moments.
FairForQ == \A cand \in Candidates : SF_vars(DrawQOther(cand))

=============================================================================
